---- MODULE Spec2Model ----
(***************************************************************************)
(* Model of Scripts/Winwing/microsoft_aircraft_ec135.py: the bridge from   *)
(* MobiFlight simulator variables to the WinWing MCDU display.             *)
(*                                                                         *)
(*   SpecSocket  McduSocket: the reconnecting sender (send_grid, _ensure,  *)
(*               _maybe_ping), one step per socket operation, with the     *)
(*               wall clock passing between and inside calls.              *)
(*   SpecVars    MobiFlightVariableRequests: get / clear_sim_variables on  *)
(*               the poll thread, client_data_callback_handler on the      *)
(*               transport's dispatch thread, one step per shared access.  *)
(*   SpecLabels  compact_labels and the paging window of the poll loop,    *)
(*               applied to bounded lists of (state, label) pairs.         *)
(*   SpecNorm    as01, applied to absent, bool, int, float and str values. *)
(*   SpecGrid    the display primitives, called on one grid with texts,    *)
(*               rows and columns inside and outside of it.                *)
(*   SpecLoop    the poll loop of __main__: initial screen, then ticks     *)
(*               (read, draw, send), any step of which may raise;          *)
(*               SpecLoopFair adds that the main thread keeps running.     *)
(***************************************************************************)
EXTENDS Integers, Sequences, FiniteSets, TLC

VARIABLES
    \* ---- McduSocket ----
    ws,            \* self.ws: "None" or "open"
    _last_ping,    \* self._last_ping, seconds
    now,           \* the reading time() returns, seconds
    spc,           \* position of the thread inside send_grid
    attempt,       \* the loop variable of `for attempt in (1, 2)`
    escaped,       \* the exception that left the last send_grid call, or "none"
    ops,           \* socket operations of the current (or last) send_grid call
    entryWs,       \* self.ws when the current (or last) send_grid call began
    lastProbe,     \* clock reading of the latest ws.ping invocation: <<>> or <<t>>
    \* ---- MobiFlightVariableRequests ----
    sim_vars,            \* self.sim_vars: id -> SimVariable (name, float_value, initialized)
    sim_var_name_to_id,  \* self.sim_var_name_to_id: name -> id
    ppc,                 \* position of the poll thread inside get
    cur,                 \* variableString of the current (or last) get
    wait_counter,        \* wait_counter of the running get; 0 when none runs
    retVal,              \* what the last get returned: <<>> (None) or <<v>>
    lastOp,              \* the last operation the poll thread began: none, get, clear
    sent,                \* transport calls made by that operation, in order
    subscribed,          \* request ids of the RequestClientData subscriptions made
    cpc,                 \* position of the dispatch thread inside the callback
    cbId,                \* dwDefineID of the notification being (or last) handled
    cbRaw,               \* its payload, in millionths; 0 when no callback runs
    cbOrphan,            \* the callback's sim_var is an object a reset dropped
    cbResult,            \* how the last callback ended: ok, discarded, KeyError
    firstSeen,           \* names in the order of their first get since the last reset
    delivered,           \* id -> value of the last notification stored for it
    cbName,              \* <<the name dwDefineID was tracked under when the dispatch
                         \* thread took the notification>>, <<>> if none or untracked
    \* ---- compact_labels and paging ----
    pairs,         \* the list of (val, label) pairs handed to compact_labels
    page,          \* cdsPage, the page selector
    labels,        \* the compacted list compact_labels returned
    window,        \* labels[start:end], the visible window
    lstage,        \* how far the computation got: idle, input, compacted, windowed
    \* ---- as01 ----
    rawValue,      \* the value as01 is applied to
    code,          \* what as01 returned
    nstage,        \* idle, input (as01 not yet applied), done
    \* ---- display primitives ----
    grid,          \* the grid; <<>> while none is allocated
    payload,       \* <<>> or <<the document grid_to_payload returned>>
    lastCall,      \* the last primitive called on the grid, with its arguments
    nOps,          \* how many primitives were called on the grid
    \* ---- poll loop ----
    lpc,           \* position of the main thread: off, initial, top, read, draw,
                   \* send, except, sleep, halted
    flags,         \* <<>> or <<the codes read this tick>>
    running,       \* how many tick bodies are in progress
    caught         \* the exception the loop caught last, "none" after a good read

sockVars == <<ws, _last_ping, now, spc, attempt, escaped, ops, entryWs, lastProbe>>

varVars == <<sim_vars, sim_var_name_to_id, ppc, cur, wait_counter, retVal, lastOp,
             sent, subscribed, cpc, cbId, cbRaw, cbOrphan, cbResult, firstSeen,
             delivered, cbName>>

labelVars == <<pairs, page, labels, window, lstage>>

normVars == <<rawValue, code, nstage>>

gridVars == <<grid, payload, lastCall, nOps>>

loopVars == <<lpc, flags, running, caught>>

vars == <<sockVars, varVars, labelVars, normVars, gridVars, loopVars>>

\* What the steps of one component leave alone.
nonSockVars == <<varVars, labelVars, normVars, gridVars, loopVars>>

nonVarVars == <<sockVars, labelVars, normVars, gridVars, loopVars>>

nonLabelVars == <<sockVars, varVars, normVars, gridVars, loopVars>>

nonNormVars == <<sockVars, varVars, labelVars, gridVars, loopVars>>

nonGridVars == <<sockVars, varVars, labelVars, normVars, loopVars>>

\* The poll loop draws on grid and hands payload to the sender.
nonLoopVars == <<sockVars, varVars, labelVars, normVars, lastCall, nOps>>

(***************************************************************************)
(* McduSocket                                                              *)
(***************************************************************************)

\* Latest clock reading the model explores.
MaxTime == 62

\* The clock reading when the socket object is built (time() is seconds since
\* the epoch, far beyond the ping interval; _last_ping starts at 0.0).
ClockStart == 20

_ping_interval == 20

\* What connect, send and ping can raise: the transport errors.
TransportErrors == {"WebSocketException", "OSError"}

Outcomes == {"ok"} \cup TransportErrors

\* except (WebSocketException, OSError) of send_grid
SendGridCatches(e) == e \in {"WebSocketException", "OSError"}

\* except Exception of _maybe_ping: both transport errors derive from Exception
PingCatches(e) == e \in {"WebSocketException", "OSError", "Exception"}

Op(o, r) == [op |-> o, res |-> r, attempt |-> attempt]

SockInit ==
    /\ ws = "None"
    /\ _last_ping = 0
    /\ now = ClockStart
    /\ spc = "idle"
    /\ attempt = 1
    /\ escaped = "none"
    /\ ops = <<>>
    /\ entryWs = "None"
    /\ lastProbe = <<>>

\* The except clause of send_grid without `self.ws = None`.
OnErrorKeepsHandle(e) ==
    IF SendGridCatches(e)
    THEN /\ ws' = ws
         /\ escaped' = escaped
         /\ IF attempt = 1
            THEN attempt' = 2 /\ spc' = "ensure"
            ELSE attempt' = attempt /\ spc' = "idle"
    ELSE /\ escaped' = e
         /\ spc' = "idle"
         /\ UNCHANGED <<ws, attempt>>

\* The except clause of send_grid catching WebSocketException alone.
OnErrorNarrow(e) ==
    IF e = "WebSocketException"
    THEN /\ ws' = "None"
         /\ escaped' = escaped
         /\ IF attempt = 1
            THEN attempt' = 2 /\ spc' = "ensure"
            ELSE attempt' = attempt /\ spc' = "idle"
    ELSE /\ escaped' = e
         /\ spc' = "idle"
         /\ UNCHANGED <<ws, attempt>>

\* An exception e raised inside the try block of send_grid: a caught one closes
\* and discards the handle (a failing close is swallowed) and goes to the next
\* attempt, or past the loop to the return after the second; any other leaves
\* send_grid.
OnError(e) ==
    IF SendGridCatches(e)
    THEN /\ ws' = "None"
         /\ escaped' = escaped
         /\ IF attempt = 1
            THEN attempt' = 2 /\ spc' = "ensure"
            ELSE attempt' = attempt /\ spc' = "idle"
    ELSE /\ escaped' = e
         /\ spc' = "idle"
         /\ UNCHANGED <<ws, attempt>>

\* send_grid is entered: payload built, first attempt begins.
SendGrid ==
    /\ spc = "idle"
    /\ spc' = "ensure"
    /\ attempt' = 1
    /\ escaped' = "none"
    /\ ops' = <<>>
    /\ entryWs' = ws
    /\ UNCHANGED <<ws, _last_ping, now, lastProbe>>
    /\ UNCHANGED nonSockVars

\* self._ensure(): connect only when there is no handle.
Ensure ==
    /\ spc = "ensure"
    /\ IF ws # "None"
       THEN /\ spc' = "send"
            /\ UNCHANGED <<ws, attempt, escaped, ops>>
       ELSE \E r \in Outcomes :
            /\ ops' = Append(ops, Op("connect", r))
            /\ IF r = "ok"
               THEN /\ ws' = "open"
                    /\ spc' = "send"
                    /\ UNCHANGED <<attempt, escaped>>
               ELSE OnError(r)
    /\ UNCHANGED <<_last_ping, now, entryWs, lastProbe>>
    /\ UNCHANGED nonSockVars

\* self.ws.send(payload)
Transmit ==
    /\ spc = "send"
    /\ \E r \in Outcomes :
        /\ ops' = Append(ops, Op("send", r))
        /\ IF r = "ok"
           THEN /\ spc' = "ping"
                /\ UNCHANGED <<ws, attempt, escaped>>
           ELSE OnError(r)
    /\ UNCHANGED <<_last_ping, now, entryWs, lastProbe>>
    /\ UNCHANGED nonSockVars

\* _maybe_ping that leaves the handle in place when the probe fails.
MaybePingKeepsHandle ==
    /\ spc = "ping"
    /\ IF now - _last_ping >= _ping_interval
       THEN \E r \in Outcomes :
            /\ ops' = Append(ops, Op("ping", r))
            /\ lastProbe' = <<now>>
            /\ _last_ping' = IF r = "ok" THEN now ELSE _last_ping
            /\ spc' = "idle"
            /\ UNCHANGED <<ws, attempt, escaped>>
       ELSE /\ spc' = "idle"
            /\ UNCHANGED <<ws, _last_ping, attempt, escaped, ops, lastProbe>>
    /\ UNCHANGED <<now, entryWs>>
    /\ UNCHANGED nonSockVars

\* self._maybe_ping() and the return that follows it.
MaybePing ==
    /\ spc = "ping"
    /\ IF now - _last_ping >= _ping_interval
       THEN \E r \in Outcomes :
            /\ ops' = Append(ops, Op("ping", r))
            /\ lastProbe' = <<now>>
            /\ IF r = "ok"
               THEN /\ _last_ping' = now
                    /\ spc' = "idle"
                    /\ UNCHANGED <<ws, attempt, escaped>>
               ELSE IF PingCatches(r)
                    THEN /\ ws' = "None"
                         /\ spc' = "idle"
                         /\ UNCHANGED <<_last_ping, attempt, escaped>>
                    ELSE /\ OnError(r)
                         /\ UNCHANGED _last_ping
       ELSE /\ spc' = "idle"
            /\ UNCHANGED <<ws, _last_ping, attempt, escaped, ops, lastProbe>>
    /\ UNCHANGED <<now, entryWs>>
    /\ UNCHANGED nonSockVars

\* The wall clock moves on, between calls or inside one.
Tick ==
    /\ now < MaxTime
    /\ now' = now + 1
    /\ UNCHANGED <<ws, _last_ping, spc, attempt, escaped, ops, entryWs, lastProbe>>
    /\ UNCHANGED nonSockVars

SockNext == SendGrid \/ Ensure \/ Transmit \/ MaybePing \/ Tick

(***************************************************************************)
(* MobiFlightVariableRequests                                              *)
(***************************************************************************)

\* How many variable names the model reads.
NameCount == 2

NameOf(i) == <<"X", "Y", "Z", "W", "V">>[i]

Names == {NameOf(i) : i \in 1..NameCount}

\* Payloads a notification can carry, in millionths: 0.0 and 1/64 = 0.015625
\* (floats whose decimal expansion is exact; the second is a rounding tie).
RawValues == {0, 15625}

\* while wait_counter < 50
MaxWait == 50

\* sizeof(FLOAT)
SizeofFloat == 4

CLIENT_DATA_AREA_LVARS == 0

CLIENT_DATA_AREA_CMD == 1

CLIENT_DATA_AREA_RESPONSE == 2

DATA_STRING_DEFINITION_ID == 0

None == <<>>

Some(v) == <<v>>

\* round(float_data, 5): the payload in hundred-thousandths, ties to even.
Round5(raw) ==
    LET q == raw \div 10
        r == raw % 10
    IN  IF r > 5 \/ (r = 5 /\ q % 2 = 1) THEN q + 1 ELSE q

\* SimVariable(id, name): float_value None, initialized False
SimVariable(id, name) ==
    [id |-> id, name |-> name, float_value |-> None, initialized |-> FALSE]

\* d[k] = v on a dict
Put(d, k, v) == [x \in (DOMAIN d) \cup {k} |-> IF x = k THEN v ELSE d[x]]

Range(f) == {f[x] : x \in DOMAIN f}

\* The three transport calls of a first read, and the reset command.
AddToClientDataDefinition(id, offset, size) ==
    [call |-> "AddToClientDataDefinition", definition |-> id, offset |-> offset,
     size |-> size]

RequestClientData(area, request, definition) ==
    [call |-> "RequestClientData", area |-> area, request |-> request,
     definition |-> definition]

\* send_command: SetClientData of the command string on the command area
SendCommand(command) ==
    [call |-> "SetClientData", area |-> CLIENT_DATA_AREA_CMD,
     definition |-> DATA_STRING_DEFINITION_ID, command |-> command]

VarInit ==
    /\ sim_vars = <<>>
    /\ sim_var_name_to_id = <<>>
    /\ ppc = "idle"
    /\ cur = NameOf(1)
    /\ wait_counter = 0
    /\ retVal = None
    /\ lastOp = "none"
    /\ sent = <<>>
    /\ subscribed = {DATA_STRING_DEFINITION_ID}
    /\ cpc = "idle"
    /\ cbId = 0
    /\ cbRaw = 0
    /\ cbOrphan = FALSE
    /\ cbResult = "ok"
    /\ firstSeen = <<>>
    /\ delivered = <<>>
    /\ cbName = None

\* The test of line 158 dropped: every get subscribes.
IsNewVariableAlways(name) == name \in Names

\* if variableString not in self.sim_var_name_to_id
IsNewVariable(name) == name \notin DOMAIN sim_var_name_to_id

\* Identifiers counted from zero.
NewIdFromZero == Cardinality(DOMAIN sim_vars)

\* id = len(self.sim_vars) + 1
NewId == Cardinality(DOMAIN sim_vars) + 1

\* The SimVariable the running get holds: self.sim_vars[variable_id]
CurVar == sim_vars[sim_var_name_to_id[cur]]

\* get(variableString), lines 158-171: subscribe on the first read, then look
\* the variable up and start the bounded wait.
Get(name) ==
    /\ ppc = "idle"
    /\ IF IsNewVariable(name)
       THEN LET id == NewId
                offset == (id - 1) * SizeofFloat
            IN  /\ sim_vars' = Put(sim_vars, id, SimVariable(id, name))
                /\ sim_var_name_to_id' = Put(sim_var_name_to_id, name, id)
                /\ sent' = << AddToClientDataDefinition(id, offset, SizeofFloat),
                              RequestClientData(CLIENT_DATA_AREA_LVARS, id, id),
                              SendCommand("MF.SimVars.Add." \o name) >>
                /\ subscribed' = subscribed \cup {id}
                /\ delivered' = Put(delivered, id, None)
       ELSE /\ sent' = <<>>
            /\ UNCHANGED <<sim_vars, sim_var_name_to_id, subscribed, delivered>>
    /\ cur' = name
    /\ wait_counter' = 0
    /\ retVal' = None
    /\ lastOp' = "get"
    /\ firstSeen' = IF name \in Range(firstSeen) THEN firstSeen
                    ELSE Append(firstSeen, name)
    /\ ppc' = "poll"
    /\ UNCHANGED <<cpc, cbId, cbRaw, cbOrphan, cbResult>>
    /\ UNCHANGED cbName
    /\ UNCHANGED nonVarVars

GetCall == \E name \in Names : Get(name)

\* The wait loop with one turn more: while wait_counter < 51.
GetPollOneMore ==
    /\ ppc = "poll"
    /\ IF wait_counter < MaxWait + 1 /\ CurVar.float_value = None
       THEN /\ wait_counter' = wait_counter + 1
            /\ ppc' = ppc
       ELSE /\ ppc' = "test_value"
            /\ wait_counter' = wait_counter
    /\ UNCHANGED <<sim_vars, sim_var_name_to_id, cur, retVal, lastOp, sent,
                   subscribed, cpc, cbId, cbRaw, cbOrphan, cbResult, firstSeen,
                   delivered>>
    /\ UNCHANGED cbName
    /\ UNCHANGED nonVarVars

\* One turn of the wait loop: sleep and count while float_value is None.
GetPoll ==
    /\ ppc = "poll"
    /\ IF wait_counter < MaxWait /\ CurVar.float_value = None
       THEN /\ wait_counter' = wait_counter + 1
            /\ ppc' = ppc
       ELSE /\ ppc' = "test_value"
            /\ wait_counter' = wait_counter
    /\ UNCHANGED <<sim_vars, sim_var_name_to_id, cur, retVal, lastOp, sent,
                   subscribed, cpc, cbId, cbRaw, cbOrphan, cbResult, firstSeen,
                   delivered>>
    /\ UNCHANGED cbName
    /\ UNCHANGED nonVarVars

\* Line 178, left operand: sim_var.float_value is None
GetTestValue ==
    /\ ppc = "test_value"
    /\ ppc' = IF CurVar.float_value = None THEN "test_init" ELSE "return"
    /\ UNCHANGED <<sim_vars, sim_var_name_to_id, cur, wait_counter, retVal, lastOp,
                   sent, subscribed, cpc, cbId, cbRaw, cbOrphan, cbResult,
                   firstSeen, delivered>>
    /\ UNCHANGED cbName
    /\ UNCHANGED nonVarVars

\* Line 178, right operand: sim_var.initialized
GetTestInit ==
    /\ ppc = "test_init"
    /\ ppc' = IF CurVar.initialized THEN "default" ELSE "return"
    /\ UNCHANGED <<sim_vars, sim_var_name_to_id, cur, wait_counter, retVal, lastOp,
                   sent, subscribed, cpc, cbId, cbRaw, cbOrphan, cbResult,
                   firstSeen, delivered>>
    /\ UNCHANGED cbName
    /\ UNCHANGED nonVarVars

\* Line 179: sim_var.float_value = 0.0
GetDefault ==
    /\ ppc = "default"
    /\ sim_vars' = [sim_vars EXCEPT ![sim_var_name_to_id[cur]].float_value = Some(0)]
    /\ ppc' = "return"
    /\ UNCHANGED <<sim_var_name_to_id, cur, wait_counter, retVal, lastOp, sent,
                   subscribed, cpc, cbId, cbRaw, cbOrphan, cbResult, firstSeen,
                   delivered>>
    /\ UNCHANGED cbName
    /\ UNCHANGED nonVarVars

\* Line 181: return sim_var.float_value (the local wait_counter is gone)
GetReturn ==
    /\ ppc = "return"
    /\ retVal' = CurVar.float_value
    /\ ppc' = "idle"
    /\ wait_counter' = 0
    /\ UNCHANGED <<sim_vars, sim_var_name_to_id, cur, lastOp, sent,
                   subscribed, cpc, cbId, cbRaw, cbOrphan, cbResult, firstSeen,
                   delivered>>
    /\ UNCHANGED cbName
    /\ UNCHANGED nonVarVars

\* clear_sim_variables that leaves the name map as it is.
ClearKeepsNames ==
    /\ ppc = "idle"
    /\ sim_vars' = <<>>
    /\ sim_var_name_to_id' = sim_var_name_to_id
    /\ sent' = << SendCommand("MF.SimVars.Clear") >>
    /\ lastOp' = "clear"
    /\ retVal' = None
    /\ firstSeen' = <<>>
    /\ delivered' = <<>>
    /\ cbOrphan' = (cbOrphan \/ cpc \in {"init", "store"})
    /\ UNCHANGED <<ppc, cur, wait_counter, subscribed, cpc, cbId, cbRaw, cbResult>>
    /\ UNCHANGED cbName
    /\ UNCHANGED nonVarVars

\* clear_sim_variables(): both dicts emptied, MF.SimVars.Clear sent. A callback
\* that already holds a SimVariable now holds one no dict refers to.
Clear ==
    /\ ppc = "idle"
    /\ sim_vars' = <<>>
    /\ sim_var_name_to_id' = <<>>
    /\ sent' = << SendCommand("MF.SimVars.Clear") >>
    /\ lastOp' = "clear"
    /\ retVal' = None
    /\ firstSeen' = <<>>
    /\ delivered' = <<>>
    /\ cbOrphan' = (cbOrphan \/ cpc \in {"init", "store"})
    /\ UNCHANGED <<ppc, cur, wait_counter, subscribed, cpc, cbId, cbRaw, cbResult>>
    /\ UNCHANGED cbName
    /\ UNCHANGED nonVarVars

\* my_dispatch_proc hands a client-data notification to the handler. The code
\* never cancels a request, so any request id ever subscribed can produce one
\* (id 0 is the response area, subscribed at construction), with any payload.
CbReceive ==
    /\ cpc = "idle"
    /\ \E id \in subscribed, raw \in RawValues :
        /\ cbId' = id
        /\ cbRaw' = raw
        /\ cbName' = IF id \in DOMAIN sim_vars THEN Some(sim_vars[id].name)
                      ELSE None
    /\ cpc' = "check"
    /\ cbOrphan' = FALSE
    /\ cbResult' = "ok"
    /\ UNCHANGED <<sim_vars, sim_var_name_to_id, ppc, cur, wait_counter, retVal,
                   lastOp, sent, subscribed, firstSeen, delivered>>
    /\ UNCHANGED nonVarVars

\* The handler without the test of line 145.
CbCheckAlwaysTracked ==
    /\ cpc = "check"
    /\ cpc' = "load"
    /\ UNCHANGED <<sim_vars, sim_var_name_to_id, ppc, cur, wait_counter, retVal,
                   lastOp, sent, subscribed, cbId, cbRaw, cbOrphan, cbResult,
                   firstSeen, delivered>>
    /\ UNCHANGED cbName
    /\ UNCHANGED nonVarVars

\* Line 145: if client_data.dwDefineID in self.sim_vars, else log and return.
CbCheck ==
    /\ cpc = "check"
    /\ IF cbId \in DOMAIN sim_vars
       THEN /\ cpc' = "load"
            /\ UNCHANGED <<cbRaw, cbResult, cbName>>
       ELSE /\ cpc' = "idle"
            /\ cbRaw' = 0
            /\ cbName' = None
            /\ cbResult' = "discarded"
    /\ UNCHANGED <<sim_vars, sim_var_name_to_id, ppc, cur, wait_counter, retVal,
                   lastOp, sent, subscribed, cbId, cbOrphan, firstSeen, delivered>>
    /\ UNCHANGED nonVarVars

\* Lines 146-149: decode, round, sim_var = self.sim_vars[id] (KeyError when a
\* reset emptied the dict since line 145).
CbLoad ==
    /\ cpc = "load"
    /\ IF cbId \in DOMAIN sim_vars
       THEN /\ cpc' = "init"
            /\ UNCHANGED <<cbRaw, cbResult, cbName>>
       ELSE /\ cpc' = "idle"
            /\ cbRaw' = 0
            /\ cbName' = None
            /\ cbResult' = "KeyError"
    /\ UNCHANGED <<sim_vars, sim_var_name_to_id, ppc, cur, wait_counter, retVal,
                   lastOp, sent, subscribed, cbId, cbOrphan, firstSeen, delivered>>
    /\ UNCHANGED nonVarVars

\* Lines 150-151: if not sim_var.initialized: sim_var.initialized = True, on the
\* object the callback holds.
CbInit ==
    /\ cpc = "init"
    /\ IF cbOrphan
       THEN UNCHANGED sim_vars
       ELSE sim_vars' = [sim_vars EXCEPT ![cbId].initialized = TRUE]
    /\ cpc' = "store"
    /\ UNCHANGED <<sim_var_name_to_id, ppc, cur, wait_counter, retVal, lastOp, sent,
                   subscribed, cbId, cbRaw, cbOrphan, cbResult, firstSeen,
                   delivered>>
    /\ UNCHANGED cbName
    /\ UNCHANGED nonVarVars

\* Line 152: self.sim_vars[id].float_value = float_value, looked up again in
\* the dict (KeyError when a reset emptied it), then the return.
CbStore ==
    /\ cpc = "store"
    /\ IF cbId \in DOMAIN sim_vars
       THEN /\ sim_vars' = [sim_vars EXCEPT ![cbId].float_value = Some(Round5(cbRaw))]
            /\ delivered' = [delivered EXCEPT ![cbId] = Some(Round5(cbRaw))]
            /\ cbResult' = "ok"
       ELSE /\ cbResult' = "KeyError"
            /\ UNCHANGED <<sim_vars, delivered>>
    /\ cpc' = "idle"
    /\ cbRaw' = 0
    /\ cbName' = None
    /\ UNCHANGED <<sim_var_name_to_id, ppc, cur, wait_counter, retVal, lastOp, sent,
                   subscribed, cbId, cbOrphan, firstSeen>>
    /\ UNCHANGED nonVarVars

VarNext ==
    \/ GetCall \/ GetPoll \/ GetTestValue \/ GetTestInit \/ GetDefault \/ GetReturn
    \/ Clear
    \/ CbReceive \/ CbCheck \/ CbLoad \/ CbInit \/ CbStore

(***************************************************************************)
(* compact_labels and the paging window                                    *)
(*                                                                         *)
(* A text is the sequence of its characters; a pair is <<val, label>>.     *)
(***************************************************************************)

\* Longest arbitrary pair list the model draws.
MaxPairs == 4

\* Labels of the arbitrary pair lists.
SampleLabels == {<<"A">>, <<"B">>, <<"C">>, <<"D">>}

\* The codes as01 returns.
States == {0, 1, 2}

\* Values of cdsPage, which as01 produces.
Pages == {0, 1, 2}

\* Labels of left_pairs, in table order; right_pairs carries the same labels.
LeftLabelTable ==
    << <<"E", "N", "G", " ", "F", "A", "I", "L">>,
       <<"E", "N", "G", " ", "O", "I", "L", " ", "P">>,
       <<"F", "A", "D", "E", "C", " ", "F", "A", "I", "L">>,
       <<"F", "U", "E", "L", " ", "P", "R", "E", "S", "S">>,
       <<"E", "N", "G", " ", "I", "D", "L", "E">>,
       <<"T", "R", "A", "I", "N">>,
       <<"T", "R", "A", "I", "N", " ", "I", "D", "L", "E">>,
       <<"E", "N", "G", " ", "M", "A", "N", "U", "A", "L">>,
       <<"T", "W", "I", "S", "T", " ", "G", "R", "I", "P">>,
       <<"F", "U", "E", "L", " ", "V", "A", "L", "V", "E">>,
       <<"P", "R", "I", "M", "E", " ", "P", "U", "M", "P">>,
       <<"D", "E", "G", "R", "A", "D", "E", "D">>,
       <<"R", "E", "D", "U", "N", "D">>,
       <<"H", "Y", "D", " ", "P", "R", "E", "S", "S">>,
       <<"G", "E", "N", " ", "D", "I", "S", "C", "O", "N">>,
       <<"I", "N", "V", "E", "R", "T", "E", "R">>,
       <<"F", "I", "R", "E", " ", "E", "X", "T">>,
       <<"F", "I", "R", "E", " ", "T", "E", "S", "T">>,
       <<"B", "U", "S", " ", "T", "I", "E">>,
       <<"S", "T", "A", "R", "T", "E", "R">> >>

\* Labels of misc_pairs, in table order.
MiscLabelTable ==
    << <<"X", "M", "S", "N", " ", "O", "I", "L", " ", "T">>,
       <<"A", "U", "T", "O", "P", "I", "L", "O", "T">>,
       <<"R", "O", "T", "O", "R", " ", "B", "R", "A", "K", "E">>,
       <<"F", " ", "P", "U", "M", "P", " ", "A", "F", "T">>,
       <<"F", " ", "P", "U", "M", "P", " ", "F", "W", "D">>,
       <<"B", "A", "T", " ", "D", "I", "S", "C", "O", "N">>,
       <<"E", "X", "T", " ", "P", "O", "W", "E", "R">>,
       <<"S", "H", "E", "D", " ", "E", "M", "E", "R">> >>

page_size == 6

Min(a, b) == IF a < b THEN a ELSE b

Max(a, b) == IF a > b THEN a ELSE b

\* Python's s[a:b]: a negative bound counts from the end, both bounds are
\* clamped to the sequence, and an empty range gives the empty sequence.
PySlice(s, a, b) ==
    LET n == Len(s)
        lo == IF a < 0 THEN Max(n + a, 0) ELSE Min(a, n)
        hi == IF b < 0 THEN Max(n + b, 0) ELSE Min(b, n)
    IN IF hi <= lo THEN <<>> ELSE [i \in 1..(hi - lo) |-> s[lo + i]]

\* [label for val, label in ps if val == 1], keeping every non-inactive state.
compact_labels_nonzero(ps) ==
    LET kept == SelectSeq(ps, LAMBDA p : p[1] # 0)
    IN [i \in 1..Len(kept) |-> kept[i][2]]

\* [label for val, label in pairs if val == 1]
compact_labels(ps) ==
    LET kept == SelectSeq(ps, LAMBDA p : p[1] = 1)
    IN [i \in 1..Len(kept) |-> kept[i][2]]

\* The window one entry too far down the list.
visible_shifted(ls, p) ==
    LET start == p * page_size + 1
        end == start + page_size
    IN PySlice(ls, start, end)

\* start = cdsPage * page_size; end = start + page_size; labels[start:end]
visible(ls, p) ==
    LET start == p * page_size
        end == start + page_size
    IN PySlice(ls, start, end)

\* Every list of at most n elements of S.
SeqsUpTo(S, n) == UNION {[1..k -> S] : k \in 0..n}

\* The pairs of a label table whose first k flags read s1 and the others s2.
TablePairs(table, k, s1, s2) ==
    [i \in 1..Len(table) |-> <<IF i <= k THEN s1 ELSE s2, table[i]>>]

\* The pair lists the model draws: every short list over the sample labels,
\* and the left table under every split of its flags into two runs.
PairLists ==
    SeqsUpTo(States \X SampleLabels, MaxPairs)
    \cup {TablePairs(LeftLabelTable, k, s1, s2) :
             k \in 0..Len(LeftLabelTable), s1 \in States, s2 \in States}

\* No list is being compacted.
LabelIdle ==
    /\ pairs = <<>>
    /\ page = 0
    /\ labels = <<>>
    /\ window = <<>>
    /\ lstage = "idle"

LabelInit ==
    /\ pairs \in PairLists
    /\ page \in Pages
    /\ labels = <<>>
    /\ window = <<>>
    /\ lstage = "input"

Compact ==
    /\ lstage = "input"
    /\ labels' = compact_labels(pairs)
    /\ lstage' = "compacted"
    /\ UNCHANGED <<pairs, page, window>>
    /\ UNCHANGED nonLabelVars

Window ==
    /\ lstage = "compacted"
    /\ window' = visible(labels, page)
    /\ lstage' = "windowed"
    /\ UNCHANGED <<pairs, page, labels>>
    /\ UNCHANGED nonLabelVars

LabelNext == Compact \/ Window

(***************************************************************************)
(* as01: normalisation of a raw value to the codes 0, 1, 2                 *)
(*                                                                         *)
(* A raw value is a record: t is its Python type, and b, n, f or s holds   *)
(* the value of a bool, an int, a float or a str.  A float is a record     *)
(* [k, v]: k is fin, nan, inf or -inf, and v a finite value in hundredths  *)
(* (rounded down, which keeps every comparison with 0.5 and 1.5).          *)
(***************************************************************************)

\* Most quote and blank characters the model puts before or after a word.
MaxPad == 2

Whitespace == {" "}

Quotes == {"\"", "'"}

Digits == <<"0", "1", "2", "3", "4", "5", "6", "7", "8", "9">>

Upper == <<"A", "B", "C", "D", "E", "F", "G", "H", "I", "J", "K", "L", "M",
           "N", "O", "P", "Q", "R", "S", "T", "U", "V", "W", "X", "Y", "Z">>

Lower == <<"a", "b", "c", "d", "e", "f", "g", "h", "i", "j", "k", "l", "m",
           "n", "o", "p", "q", "r", "s", "t", "u", "v", "w", "x", "y", "z">>

Fin(v) == [k |-> "fin", v |-> v]

NaN == [k |-> "nan", v |-> 0]

PosInf == [k |-> "inf", v |-> 0]

NegInf == [k |-> "-inf", v |-> 0]

\* What float(...) gives when it raises.
ValueError == [k |-> "ValueError", v |-> 0]

OverflowError == [k |-> "OverflowError", v |-> 0]

VNone == [t |-> "None", b |-> FALSE, n |-> 0, f |-> Fin(0), s |-> <<>>]

VBool(b) == [t |-> "bool", b |-> b, n |-> 0, f |-> Fin(0), s |-> <<>>]

VInt(n) == [t |-> "int", b |-> FALSE, n |-> n, f |-> Fin(0), s |-> <<>>]

\* An int beyond the range of a float, such as 10**400.
VBigInt == [t |-> "int", b |-> TRUE, n |-> 0, f |-> Fin(0), s |-> <<>>]

VFloat(f) == [t |-> "float", b |-> FALSE, n |-> 0, f |-> f, s |-> <<>>]

VStr(s) == [t |-> "str", b |-> FALSE, n |-> 0, f |-> Fin(0), s |-> s]

\* The words the model's texts are built around.
Words ==
    { <<>>,
      <<"2">>,
      <<"t", "w", "o">>,
      <<"1">>,
      <<"t", "r", "u", "e">>,
      <<"o", "n">>,
      <<"y", "e", "s">>,
      <<"y">>,
      <<"0">>,
      <<"f", "a", "l", "s", "e">>,
      <<"o", "f", "f">>,
      <<"n", "o">>,
      <<"n">>,
      <<"g", "a", "r", "b", "a", "g", "e">>,
      <<"0", ".", "4">>,
      <<"0", ".", "5">>,
      <<"1", ".", "4", "9">>,
      <<"1", ".", "5">>,
      <<".", "5">>,
      <<"1", ".">>,
      <<"-", "1">>,
      <<"+", "2">>,
      <<"1", "e", "1">>,
      <<"5", "e", "-", "1">>,
      <<"1", "5", "e", "-", "1">>,
      <<"n", "a", "n">>,
      <<"i", "n", "f">>,
      <<"T", "W", "O">>,
      <<"O", "n">>,
      <<"1", ".", "5", ".", "0">>,
      <<"e", "1">>,
      <<"-">> }

\* Finite floats the model draws, in hundredths.
FloatSamples == {-100, 0, 40, 49, 50, 100, 149, 150, 200, 1000}

IntSamples == {-1, 0, 1, 2, 3}

\* Runs of blanks and quotes.
Pads == SeqsUpTo(Whitespace \cup Quotes, MaxPad)

\* The values as01 is applied to.
RawInputs ==
    {VNone, VBigInt}
    \cup {VBool(b) : b \in BOOLEAN}
    \cup {VInt(n) : n \in IntSamples}
    \cup {VFloat(Fin(v)) : v \in FloatSamples}
    \cup {VFloat(NaN), VFloat(PosInf), VFloat(NegInf)}
    \cup {VStr(p \o w \o q) : p \in Pads, w \in Words, q \in Pads}

\* s.strip(cs): s without its leading and trailing characters that are in cs.
RECURSIVE LStrip(_, _)
LStrip(s, cs) == IF s # <<>> /\ Head(s) \in cs THEN LStrip(Tail(s), cs) ELSE s

RECURSIVE RStrip(_, _)
RStrip(s, cs) ==
    IF s # <<>> /\ s[Len(s)] \in cs THEN RStrip(SubSeq(s, 1, Len(s) - 1), cs) ELSE s

Strip(s, cs) == RStrip(LStrip(s, cs), cs)

\* s.lower()
LowerChar(c) ==
    IF \E i \in DOMAIN Upper : Upper[i] = c
    THEN Lower[CHOOSE i \in DOMAIN Upper : Upper[i] = c]
    ELSE c

LowerText(s) == [i \in DOMAIN s |-> LowerChar(s[i])]

IsDigit(c) == \E i \in DOMAIN Digits : Digits[i] = c

DigitVal(c) == (CHOOSE i \in DOMAIN Digits : Digits[i] = c) - 1

AllDigits(s) == \A i \in DOMAIN s : IsDigit(s[i])

\* The number a run of digits denotes; 0 for the empty run.
RECURSIVE ToNat(_)
ToNat(s) == IF s = <<>> THEN 0 ELSE 10 * ToNat(SubSeq(s, 1, Len(s) - 1)) + DigitVal(s[Len(s)])

RECURSIVE Pow10(_)
Pow10(n) == IF n = 0 THEN 1 ELSE 10 * Pow10(n - 1)

\* float() of a lower-case unsigned decimal literal: digits with at most one
\* point and an optional exponent; the value in hundredths, negated if neg.
Decimal(body, neg) ==
    LET ePos == {i \in DOMAIN body : body[i] = "e"}
        e == IF ePos = {} THEN Len(body) + 1 ELSE CHOOSE i \in ePos : TRUE
        mant == SubSeq(body, 1, e - 1)
        etxt == SubSeq(body, e + 1, Len(body))
        esigned == etxt # <<>> /\ etxt[1] \in {"+", "-"}
        edigits == IF esigned THEN Tail(etxt) ELSE etxt
        dots == {i \in DOMAIN mant : mant[i] = "."}
        d == IF dots = {} THEN Len(mant) + 1 ELSE CHOOSE i \in dots : TRUE
        ip == SubSeq(mant, 1, d - 1)
        fp == SubSeq(mant, d + 1, Len(mant))
        wellFormed ==
            /\ Cardinality(ePos) <= 1
            /\ Cardinality(dots) <= 1
            /\ AllDigits(ip \o fp)
            /\ Len(ip \o fp) >= 1
            /\ ePos # {} => (edigits # <<>> /\ AllDigits(edigits))
    IN IF ~wellFormed THEN ValueError
       ELSE LET m == ToNat(ip \o fp)
                ex == IF ePos = {} THEN 0
                      ELSE IF esigned /\ etxt[1] = "-" THEN 0 - ToNat(edigits)
                      ELSE ToNat(edigits)
                scale == ex - Len(fp) + 2
                v == IF scale >= 0 THEN m * Pow10(scale) ELSE m \div Pow10(0 - scale)
            IN Fin(IF neg THEN 0 - v ELSE v)

\* float(s) of a str: blanks around the literal are ignored, case is ignored,
\* nan and inf are literals, anything else must be a decimal literal.
FloatOfStr(s) ==
    LET t == LowerText(Strip(s, Whitespace))
        signed == t # <<>> /\ t[1] \in {"+", "-"}
        neg == signed /\ t[1] = "-"
        body == IF signed THEN Tail(t) ELSE t
    IN IF body = <<"n", "a", "n">> THEN NaN
       ELSE IF body \in {<<"i", "n", "f">>, <<"i", "n", "f", "i", "n", "i", "t", "y">>} THEN (IF neg THEN NegInf ELSE PosInf)
       ELSE Decimal(body, neg)

\* float(v) of an int or a float.
FloatOfNumber(v) ==
    IF v.t = "float" THEN v.f
    ELSE IF v.b THEN OverflowError
    ELSE Fin(100 * v.n)

Raised(f) == f.k \in {"ValueError", "OverflowError"}

\* f < c for a float f and a finite c in hundredths; a nan compares false.
FloatLess(f, c) ==
    IF f.k = "fin" THEN f.v < c
    ELSE f.k = "-inf"

\* if f < 0.5: return 0 / elif f < 1.5: return 1 / else: return 2
Thresholds(f) ==
    IF FloatLess(f, 50) THEN 0
    ELSE IF FloatLess(f, 150) THEN 1
    ELSE 2

TwoWords == {<<"2">>, <<"t", "w", "o">>}

OneWords == {<<"1">>, <<"t", "r", "u", "e">>, <<"o", "n">>, <<"y", "e", "s">>, <<"y">>}

ZeroWords == {<<"0">>, <<"f", "a", "l", "s", "e">>, <<"o", "f", "f">>, <<"n", "o">>, <<"n">>, <<>>}

\* str(v).strip().strip('"').strip("'").lower()
Cleaned(s) == LowerText(Strip(Strip(Strip(s, Whitespace), {"\""}), {"'"}))

\* as01(v); an exception raised inside the try block ends in `except: return 0`.
as01(v) ==
    IF v.t = "None" THEN 0
    ELSE IF v.t = "bool" THEN (IF v.b THEN 1 ELSE 0)
    ELSE IF v.t \in {"int", "float"}
    THEN LET f == FloatOfNumber(v)
         IN IF Raised(f) THEN 0 ELSE Thresholds(f)
    ELSE LET s == Cleaned(v.s)
         IN IF s \in TwoWords THEN 2
            ELSE IF s \in OneWords THEN 1
            ELSE IF s \in ZeroWords THEN 0
            ELSE LET f == FloatOfStr(s)
                 IN IF Raised(f) THEN 0 ELSE Thresholds(f)

\* as01 is not being applied.
NormIdle ==
    /\ rawValue = VNone
    /\ code = 0
    /\ nstage = "idle"

NormInit ==
    /\ rawValue \in RawInputs
    /\ code = 0
    /\ nstage = "input"

Normalize ==
    /\ nstage = "input"
    /\ code' = as01(rawValue)
    /\ nstage' = "done"
    /\ UNCHANGED rawValue
    /\ UNCHANGED nonNormVars

NormNext == Normalize

(***************************************************************************)
(* MCDU display primitives                                                 *)
(*                                                                         *)
(* A grid maps row 0..13 and column 0..23 to a cell; the cell [] is <<>>   *)
(* and [glyph, colour, size] is <<glyph, colour, size>>.  A character      *)
(* outside ASCII is written as the name of its code point, e.g. "u2610".   *)
(***************************************************************************)

\* Most primitive calls the model makes on one grid.
MaxOps == 2

CDU_COLUMNS == 24

CDU_ROWS == 14

LARGE == 0

SMALL == 1

Rows == 0..(CDU_ROWS - 1)

Cols == 0..(CDU_COLUMNS - 1)

\* [[[] for _ in range(CDU_COLUMNS)] for _ in range(CDU_ROWS)]
empty_grid == [r \in Rows |-> [c \in Cols |-> <<>>]]

\* REPLACED.get(ch, ch)
REPLACED(ch) ==
    CASE ch = "_" -> "u2610"
      [] ch = "&" -> "u0394"
      [] ch = "u00a0" -> " "
      [] ch = "{" -> "u2190"
      [] ch = "}" -> "u2192"
      [] ch = "|" -> "/"
      [] OTHER -> ch

\* put_text that wraps a column beyond the right edge round to the left.
put_text_wrapping(g, text, row, col, colour, size) ==
    IF ~(0 <= row /\ row < CDU_ROWS) THEN g
    ELSE [g EXCEPT ![row] =
            [c \in Cols |->
                LET hits == {i \in 0..(Len(text) - 1) : (col + i) % CDU_COLUMNS = c}
                IN IF hits = {} THEN g[row][c]
                   ELSE LET last == CHOOSE i \in hits : \A j \in hits : j <= i
                        IN <<REPLACED(text[last + 1]), colour, size>>]]

\* put_text: the grid after the call.  Character i goes to column col + i of
\* the row when that column exists; a row outside the grid returns at once.
put_text(g, text, row, col, colour, size) ==
    IF ~(0 <= row /\ row < CDU_ROWS) THEN g
    ELSE [g EXCEPT ![row] =
            [c \in Cols |->
                LET i == c - col
                IN IF 0 <= i /\ i < Len(text)
                   THEN <<REPLACED(text[i + 1]), colour, size>>
                   ELSE g[row][c]]]

\* put_text_center: text[:CDU_COLUMNS] placed at (CDU_COLUMNS - len(text)) // 2.
put_text_center(g, text, row, colour, size) ==
    LET t == PySlice(text, 0, CDU_COLUMNS)
        col == (CDU_COLUMNS - Len(t)) \div 2
    IN put_text(g, t, row, col, colour, size)

\* clear_area_with_spaces for bounds inside the grid (0 <= r0, r1 < CDU_ROWS,
\* 0 <= c0, c1 <= CDU_COLUMNS), which is how the program calls it.
clear_area_with_spaces(g, r0, r1, c0, c1, colour, size) ==
    [r \in Rows |-> [c \in Cols |->
        IF r0 <= r /\ r <= r1 /\ c0 <= c /\ c < c1
        THEN <<" ", colour, size>>
        ELSE g[r][c]]]

\* chain(*rows): the rows one after the other.
RECURSIVE chain(_, _)
chain(g, r) == IF r >= CDU_ROWS THEN <<>> ELSE [c \in 1..CDU_COLUMNS |-> g[r][c - 1]] \o chain(g, r + 1)

\* The Data list read column by column.
grid_to_payload_by_columns(g) ==
    [Target |-> "Display",
     Data |-> [k \in 1..(CDU_ROWS * CDU_COLUMNS) |->
                  g[(k - 1) % CDU_ROWS][(k - 1) \div CDU_ROWS]]]

\* grid_to_payload: the JSON document {"Target": "Display", "Data": [...]};
\* json.dumps writes each cell list as an array, in list order.
grid_to_payload(g) == [Target |-> "Display", Data |-> chain(g, 0)]

\* The texts the model writes: empty, with substituted characters, ten
\* characters, and longer than a row.
GridTexts ==
    { <<>>,
      <<"_", "|", "A">>,
      <<"0", "1", "2", "3", "4", "5", "6", "7", "8", "9">>,
      <<"A", "B", "C", "D", "E", "F", "G", "H", "I", "J", "K", "L", "M", "N", "O", "P", "Q", "R", "S", "T", "U", "V", "W", "X", "Y", "Z">> }

\* Rows and columns the model writes at, inside and outside the grid.
GridRows == {-1, 13, 20}

GridCols == {-2, 0, 20, 24}

\* The (colour, size) pairs the model writes with.
Inks == {<<"a", LARGE>>, <<"g", SMALL>>}

\* The areas <<r0, r1, c0, c1>> the program clears.
ClearAreas == {<<0, 12, 0, 24>>, <<7, 12, 0, 24>>, <<13, 13, 0, 12>>, <<13, 13, 13, 24>>}

Call(op, text, row, col, r1, c1, colour, size) ==
    [op |-> op, text |-> text, row |-> row, col |-> col, r1 |-> r1, c1 |-> c1,
     colour |-> colour, size |-> size]

NoCall == Call("none", <<>>, 0, 0, 0, 0, "a", LARGE)

\* No grid has been allocated.
GridIdle ==
    /\ grid = <<>>
    /\ payload = None
    /\ lastCall = NoCall
    /\ nOps = 0

\* grid = empty_grid()
GridInit ==
    /\ grid = empty_grid
    /\ payload = None
    /\ lastCall = NoCall
    /\ nOps = 0

PutText ==
    /\ payload = None
    /\ nOps < MaxOps
    /\ \E text \in GridTexts, row \in GridRows, col \in GridCols, ink \in Inks :
        /\ grid' = put_text(grid, text, row, col, ink[1], ink[2])
        /\ lastCall' = Call("put_text", text, row, col, 0, 0, ink[1], ink[2])
    /\ nOps' = nOps + 1
    /\ UNCHANGED payload
    /\ UNCHANGED nonGridVars

PutTextCenter ==
    /\ payload = None
    /\ nOps < MaxOps
    /\ \E text \in GridTexts, row \in GridRows, ink \in Inks :
        /\ grid' = put_text_center(grid, text, row, ink[1], ink[2])
        /\ lastCall' = Call("put_text_center", text, row, 0, 0, 0, ink[1], ink[2])
    /\ nOps' = nOps + 1
    /\ UNCHANGED payload
    /\ UNCHANGED nonGridVars

ClearArea ==
    /\ payload = None
    /\ nOps < MaxOps
    /\ \E a \in ClearAreas :
        /\ grid' = clear_area_with_spaces(grid, a[1], a[2], a[3], a[4], "w", 0)
        /\ lastCall' = Call("clear_area_with_spaces", <<>>, a[1], a[3], a[2], a[4], "w", 0)
    /\ nOps' = nOps + 1
    /\ UNCHANGED payload
    /\ UNCHANGED nonGridVars

ToPayload ==
    /\ payload = None
    /\ payload' = Some(grid_to_payload(grid))
    /\ UNCHANGED <<grid, lastCall, nOps>>
    /\ UNCHANGED nonGridVars

GridNext == PutText \/ PutTextCenter \/ ClearArea \/ ToPayload

(***************************************************************************)
(* Rolling list layout and the rendering of one tick                       *)
(***************************************************************************)

LEFT_COL_START == 0

RIGHT_COL_START == 13

CONTENT_FIRST_ROW == 0

CONTENT_LAST_ROW == CDU_ROWS - 2

MAX_ROWS == CONTENT_LAST_ROW - CONTENT_FIRST_ROW + 1

\* A label left as it is, without padding.
ljust_none(s, w) == s

\* s.ljust(w): s padded with blanks on the right to w characters.
ljust(s, w) == IF Len(s) >= w THEN s ELSE s \o [i \in 1..(w - Len(s)) |-> " "]

\* One column of draw_columns from its i-th label on: label i goes to row
\* CONTENT_FIRST_ROW + i - 1, cut and padded to width characters; the loop
\* ends with the list or once the row passes CONTENT_LAST_ROW.
RECURSIVE DrawColumn(_, _, _, _, _)
DrawColumn(g, ls, width, col, i) ==
    LET row == CONTENT_FIRST_ROW + i - 1
    IN IF i > Len(ls) \/ row > CONTENT_LAST_ROW THEN g
       ELSE DrawColumn(put_text(g, ljust(PySlice(ls[i], 0, width), width), row, col, "a", LARGE),
                       ls, width, col, i + 1)

\* draw_columns(grid, left_labels, right_labels)
draw_columns(g, left_labels, right_labels) ==
    LET cleared == clear_area_with_spaces(g, CONTENT_FIRST_ROW, CONTENT_LAST_ROW,
                                          0, CDU_COLUMNS, "w", 0)
        left == DrawColumn(cleared, PySlice(left_labels, 0, MAX_ROWS), 12, LEFT_COL_START, 1)
    IN DrawColumn(left, PySlice(right_labels, 0, MAX_ROWS), 11, RIGHT_COL_START, 1)

MISC == <<"M", "I", "S", "C">>

PS_HTR_P == <<"P", "/", "S", "-", "H", "T", "R", "-", "P">>

PS_HTR_C == <<"P", "/", "S", "-", "H", "T", "R", "-", "C">>

\* The initial screen: every cell cleared, the title on row 6.
InitialGrid ==
    put_text_center(
        clear_area_with_spaces(empty_grid, 0, CDU_ROWS - 1, 0, CDU_COLUMNS, "w", 0),
        MISC, 6, "k", LARGE)

\* The left (or right) pairs of a tick: the flags read paired with the labels.
PairsOf(codes, table) == [i \in DOMAIN table |-> <<codes[i], table[i]>>]

\* for i, row in enumerate(misc_rows): if i < len(visible_misc): put_text_center(...)
RECURSIVE DrawMisc(_, _, _)
DrawMisc(g, visible_misc, i) ==
    IF i >= 6 THEN g
    ELSE DrawMisc(IF i < Len(visible_misc)
                  THEN put_text_center(g, visible_misc[i + 1], 7 + i, "a", LARGE)
                  ELSE g,
                  visible_misc, i + 1)

\* clear_area_with_spaces(grid, 13, 13, 0, 12); clear_area_with_spaces(grid, 13, 13, 13, 24)
ClearLastRow(g) ==
    clear_area_with_spaces(clear_area_with_spaces(g, 13, 13, 0, 12, "w", 0),
                           13, 13, 13, 24, "w", 0)

\* The grid a tick draws from the codes it read (compaction, paging, drawing).
TickGrid(fl) ==
    LET left_labels == compact_labels(PairsOf(fl.left, LeftLabelTable))
        right_labels == compact_labels(PairsOf(fl.right, LeftLabelTable))
        misc_labels == compact_labels(PairsOf(fl.misc, MiscLabelTable))
        visible_left == visible(left_labels, fl.cdsPage)
        visible_right == visible(right_labels, fl.cdsPage)
        visible_misc == visible(misc_labels, fl.cdsPage)
        g1 == draw_columns(empty_grid, visible_left, visible_right)
        g2 == put_text_center(g1, MISC, 6, "k", LARGE)
        g3 == clear_area_with_spaces(g2, 7, 12, 0, CDU_COLUMNS, "w", 0)
        g4 == DrawMisc(g3, visible_misc, 0)
        g5 == ClearLastRow(g4)
        g6 == IF fl.pitotPilot = 1 THEN put_text(g5, PS_HTR_P, 13, 0, "g", LARGE) ELSE g5
    IN IF fl.pitotCoPi = 1 THEN put_text(g6, PS_HTR_C, 13, 13, "g", LARGE) ELSE g6

(***************************************************************************)
(* The poll loop of __main__                                               *)
(*                                                                         *)
(* One step per stage of a tick: reading the 51 variables (each through    *)
(* vr.get and as01), drawing the grid, sending it.  The locals of a tick   *)
(* are dead once it ends or raises (the next tick assigns each of them     *)
(* before reading it), so the model drops them there.                      *)
(***************************************************************************)

\* Most flags of the varied list that read active, resp. not active.
MaxOn == 1

MaxOff == 1

\* What vr.get returns, in 1e-5 units: 1.0 for an active flag; 0.0 or 2.0 for
\* one that is not; None (no value yet), 1.0 or 2.0 for the page selector.
GetOn == Some(100000)

GetOffs == {Some(0), Some(200000)}

GetPages == {None, Some(100000), Some(200000)}

\* The argument as01 receives from vr.get.
RawOfGet(r) == IF r = None THEN VNone ELSE VFloat(Fin(r[1] \div 1000))

\* The subsets of 1..n with at most k elements.
RECURSIVE SmallSets(_, _)
SmallSets(n, k) ==
    IF k = 0 THEN {{}}
    ELSE LET prev == SmallSets(n, k - 1)
         IN prev \cup {S \cup {i} : S \in prev, i \in 1..n}

\* The sets of active flags the model draws for the varied list of n flags.
ActiveSets(n) == SmallSets(n, MaxOn) \cup {(1..n) \ S : S \in SmallSets(n, MaxOff)}

\* The other two lists read all active or all not active.
UniformSets(n) == {{}, 1..n}

\* The sets of active flags drawn for a list of n flags: one list is varied,
\* the other two read all active or all not active.
ListChoices(list, varied, n) == IF list = varied THEN ActiveSets(n) ELSE UniformSets(n)

\* The locals of a tick after lines 360-417, as01(vr.get(...)) of every
\* variable: pg is what vr.get returns for cdsPage, l, r and m are the flags of
\* each list for which it returns 1.0, pp and pc tell whether it does for the
\* pitot flags, and off is what it returns for every other flag.
FlagsOf(pg, l, r, m, pp, pc, off) ==
    LET on == as01(RawOfGet(GetOn))
        no == as01(RawOfGet(off))
    IN [cdsPage |-> as01(RawOfGet(pg)),
        left |-> [i \in 1..20 |-> IF i \in l THEN on ELSE no],
        right |-> [i \in 1..20 |-> IF i \in r THEN on ELSE no],
        misc |-> [i \in 1..8 |-> IF i \in m THEN on ELSE no],
        pitotPilot |-> IF pp THEN on ELSE no,
        pitotCoPi |-> IF pc THEN on ELSE no]

\* Exceptions a step of a tick may raise; all are subclasses of Exception.
LoopErrors == {"KeyError", "OSError"}

\* An except clause that catches the socket's errors only.
CatchesOSErrorOnly(e) == e = "OSError"

\* except Exception as e
LoopCatches(e) == e \in {"KeyError", "OSError", "MemoryError", "Exception"}

\* The poll loop does not run.
LoopIdle ==
    /\ lpc = "off"
    /\ flags = None
    /\ running = 0
    /\ caught = "none"

\* __main__ has built sm, vr and mcdu and is about to draw the initial screen.
LoopInit ==
    /\ lpc = "initial"
    /\ flags = None
    /\ running = 0
    /\ caught = "none"

\* Lines 352-355: the initial screen is drawn and sent.
InitialScreen ==
    /\ lpc = "initial"
    /\ grid' = InitialGrid
    /\ payload' = Some(grid_to_payload(InitialGrid))
    /\ lpc' = "top"
    /\ UNCHANGED <<flags, running, caught>>
    /\ UNCHANGED nonLoopVars

\* while True: try: -- a tick begins.
TickStart ==
    /\ lpc = "top"
    /\ lpc' = "read"
    /\ running' = running + 1
    /\ flags' = None
    /\ grid' = <<>>
    /\ payload' = None
    /\ UNCHANGED caught
    /\ UNCHANGED nonLoopVars

\* An exception e leaves a step of the try block.
Raise(e) ==
    /\ IF LoopCatches(e)
       THEN lpc' = "except" /\ caught' = e /\ UNCHANGED running
       ELSE lpc' = "halted" /\ caught' = caught /\ running' = running - 1
    /\ flags' = None
    /\ grid' = <<>>
    /\ UNCHANGED payload
    /\ UNCHANGED nonLoopVars

\* Lines 360-417: every variable is read and normalised.
ReadVars ==
    /\ lpc = "read"
    /\ \E varied \in {"left", "right", "misc"}, pg \in GetPages,
          pp \in BOOLEAN, pc \in BOOLEAN, off \in GetOffs :
        \E l \in ListChoices("left", varied, 20), r \in ListChoices("right", varied, 20),
           m \in ListChoices("misc", varied, 8) :
            flags' = Some(FlagsOf(pg, l, r, m, pp, pc, off))
    /\ lpc' = "draw"
    /\ caught' = "none"
    /\ UNCHANGED <<running, grid, payload>>
    /\ UNCHANGED nonLoopVars

ReadFails == lpc = "read" /\ \E e \in LoopErrors : Raise(e)

\* Lines 421-519: compaction, paging and drawing.
Draw ==
    /\ lpc = "draw"
    /\ grid' = TickGrid(flags[1])
    /\ lpc' = "send"
    /\ UNCHANGED <<flags, running, caught, payload>>
    /\ UNCHANGED nonLoopVars

DrawFails == lpc = "draw" /\ \E e \in LoopErrors : Raise(e)

\* Line 520: mcdu.send_grid(grid) returns; the try block ends.
Send ==
    /\ lpc = "send"
    /\ payload' = Some(grid_to_payload(grid))
    /\ lpc' = "sleep"
    /\ running' = running - 1
    /\ UNCHANGED <<flags, caught, grid>>
    /\ UNCHANGED nonLoopVars

SendFails == lpc = "send" /\ \E e \in LoopErrors : Raise(e)

\* Lines 522-523: logging.exception(...); the tick is over.
Except ==
    /\ lpc = "except"
    /\ lpc' = "sleep"
    /\ running' = running - 1
    /\ UNCHANGED <<flags, caught, grid, payload>>
    /\ UNCHANGED nonLoopVars

\* Line 525: sleep(0.1), then back to the top of the loop.
Sleep ==
    /\ lpc = "sleep"
    /\ lpc' = "top"
    /\ flags' = None
    /\ grid' = <<>>
    /\ payload' = None
    /\ UNCHANGED <<running, caught>>
    /\ UNCHANGED nonLoopVars

LoopNext ==
    \/ InitialScreen \/ TickStart
    \/ ReadVars \/ ReadFails
    \/ Draw \/ DrawFails
    \/ Send \/ SendFails
    \/ Except \/ Sleep

(***************************************************************************)
(* Specifications                                                          *)
(***************************************************************************)

\* Every component a specification does not exercise stays as constructed.
Init == SockInit /\ VarInit /\ LabelIdle /\ NormIdle /\ GridIdle /\ LoopIdle

SpecSocket == Init /\ [][SockNext]_vars

SpecVars == Init /\ [][VarNext]_vars

\* The poll thread is never suspended for good: sleep(0.01) returns and every
\* statement of get completes.  Nothing is assumed of the dispatch thread.
SpecVarsFair ==
    /\ SpecVars
    /\ WF_vars(GetPoll) /\ WF_vars(GetTestValue) /\ WF_vars(GetTestInit)
    /\ WF_vars(GetDefault) /\ WF_vars(GetReturn)

InitLabels == SockInit /\ VarInit /\ LabelInit /\ NormIdle /\ GridIdle /\ LoopIdle

SpecLabels == InitLabels /\ [][LabelNext]_vars

InitNorm == SockInit /\ VarInit /\ LabelIdle /\ NormInit /\ GridIdle /\ LoopIdle

SpecNorm == InitNorm /\ [][NormNext]_vars

InitGrid == SockInit /\ VarInit /\ LabelIdle /\ NormIdle /\ GridInit /\ LoopIdle

SpecGrid == InitGrid /\ [][GridNext]_vars

InitLoop == SockInit /\ VarInit /\ LabelIdle /\ NormIdle /\ GridIdle /\ LoopInit

SpecLoop == InitLoop /\ [][LoopNext]_vars

\* The main thread is never suspended for good: the logging call of the except
\* clause returns, sleep(0.1) returns, and the loop then re-enters its body.
SpecLoopFair == SpecLoop /\ WF_vars(Except) /\ WF_vars(Sleep) /\ WF_vars(TickStart)

(***************************************************************************)
(* Claims about McduSocket (checked under SpecSocket)                      *)
(***************************************************************************)

IsFailure(o) == o.res # "ok"

OpsOf(kind) == {i \in DOMAIN ops : ops[i].op = kind}

\* The first attempt of the current call failed: its connect or its send raised.
FirstAttemptFailed ==
    \E i \in DOMAIN ops :
        /\ ops[i].attempt = 1
        /\ ops[i].op \in {"connect", "send"}
        /\ IsFailure(ops[i])

\* C1: no exception escapes send_grid, whatever connect, send and ping raise
\* (WebSocketException or OSError) on whichever attempt.
C1_NoExceptionEscapes == escaped = "none"

\* Both attempts of a call failed, with either error type, and the call returned.
C1_Witness ==
    /\ spc = "idle"
    /\ Len(ops) = 4
    /\ ops[2] = [op |-> "send", res |-> "OSError", attempt |-> 1]
    /\ ops[4] = [op |-> "send", res |-> "WebSocketException", attempt |-> 2]
    /\ escaped = "none"

\* C2: within one send_grid call there is a second attempt exactly when the
\* first attempt's connect or send failed; the second attempt starts with the
\* handle discarded and so connects before it sends; there is no third attempt:
\* at most two connects and two sends per call, at most one of each per attempt.
C2_RetryExactlyOnce ==
    /\ attempt \in {1, 2}
    /\ \A i \in DOMAIN ops : ops[i].attempt \in {1, 2}
    /\ (attempt = 2) <=> FirstAttemptFailed
    /\ Cardinality(OpsOf("connect")) <= 2
    /\ Cardinality(OpsOf("send")) <= 2
    /\ \A i, j \in DOMAIN ops :
        (i # j /\ ops[i].op = ops[j].op) => ops[i].attempt # ops[j].attempt
    /\ (spc = "ensure" /\ attempt = 2) => ws = "None"
    /\ \A i \in DOMAIN ops :
        (ops[i].attempt = 2 /\ ops[i].op = "send") =>
            (i > 1 /\ ops[i - 1] = [op |-> "connect", res |-> "ok", attempt |-> 2])

\* The first attempt's send failed and the retry reconnected and sent.
C2_Witness ==
    /\ spc = "idle"
    /\ Len(ops) >= 4
    /\ IsFailure(ops[2]) /\ ops[2].op = "send" /\ ops[2].attempt = 1
    /\ ops[3] = [op |-> "connect", res |-> "ok", attempt |-> 2]
    /\ ops[4] = [op |-> "send", res |-> "ok", attempt |-> 2]

\* C3: when the last socket operation of a send_grid call failed, the handle is
\* None on return (so a handle that is not None on return is one whose last
\* operation succeeded), and a call that begins without a handle connects
\* before anything else: it never sends without a handle.
C3_FailedCallLeavesNoHandle ==
    /\ (spc = "idle" /\ ops # <<>> /\ IsFailure(ops[Len(ops)])) => ws = "None"
    /\ (spc = "idle" /\ ops # <<>> /\ ws # "None") => ~IsFailure(ops[Len(ops)])
    /\ spc = "send" => ws = "open"
    /\ (entryWs = "None" /\ ops # <<>>) => ops[1].op = "connect"

\* The probe of an earlier call failed (no ping ever succeeded), and the next
\* call, entered without a handle, has connected anew and is about to send.
C3_Witness ==
    /\ lastProbe # <<>>
    /\ _last_ping = 0
    /\ entryWs = "None"
    /\ spc = "send"
    /\ ops = <<[op |-> "connect", res |-> "ok", attempt |-> 1]>>

\* A step that invokes ws.ping.
PingIssued ==
    /\ Len(ops') = Len(ops) + 1
    /\ ops'[Len(ops')].op = "ping"

\* C10: a ping is issued only in a call whose payload send succeeded, and any
\* two ping invocations, successful or not, are at least 20 seconds apart.
C10_PingsTwentySecondsApart ==
    [][PingIssued =>
        /\ \E i \in DOMAIN ops : ops[i].op = "send" /\ ~IsFailure(ops[i])
        /\ (lastProbe = <<>> \/ now - lastProbe[1] >= _ping_interval)]_vars

(***************************************************************************)
(* Claims about MobiFlightVariableRequests (checked under SpecVars)        *)
(***************************************************************************)

\* No notification for the object now at id has been stored, and the callback
\* is not handling one for id.
NeverNotified(id) == delivered[id] = None /\ (cpc = "idle" \/ cbId # id)

\* A step in which the poll thread enters get(n).
GetBegins(n) == ppc = "idle" /\ ppc' = "poll" /\ cur' = n

\* What a first read hands to the transport for name n under identifier id.
FirstReadCalls(n, id) ==
    << AddToClientDataDefinition(id, (id - 1) * SizeofFloat, SizeofFloat),
       RequestClientData(CLIENT_DATA_AREA_LVARS, id, id),
       SendCommand("MF.SimVars.Add." \o n) >>

\* C4: a get that returns without any notification ever having arrived for its
\* variable returns the default 0.0 and leaves the variable marked initialized.
C4_TimeoutReturnsDefault ==
    (ppc = "idle" /\ lastOp = "get" /\ NeverNotified(sim_var_name_to_id[cur])) =>
        (retVal = Some(0) /\ CurVar.initialized)

\* C5: identifiers are dense and in first-seen order from 1: the i-th name first
\* read since the layer was fresh (or reset) has identifier i for as long as no
\* reset happens, the identifiers in use are exactly 1..k for k names, no two
\* names share one, and sim_vars[id].name and sim_var_name_to_id agree.
C5_DenseStableIdentifiers ==
    /\ DOMAIN sim_vars = 1..Len(firstSeen)
    /\ DOMAIN sim_var_name_to_id = Range(firstSeen)
    /\ \A i \in DOMAIN firstSeen :
        /\ sim_var_name_to_id[firstSeen[i]] = i
        /\ sim_vars[i].name = firstSeen[i]
        /\ sim_vars[i].id = i
    /\ \A n, m \in DOMAIN sim_var_name_to_id :
        n # m => sim_var_name_to_id[n] # sim_var_name_to_id[m]

\* get X, get Y, get X has returned: X is 1, Y is 2, and the third get
\* subscribed nothing.
C5_Witness ==
    /\ ppc = "idle"
    /\ lastOp = "get"
    /\ cur = "X"
    /\ firstSeen = <<"X", "Y">>
    /\ sent = <<>>
    /\ sim_var_name_to_id["X"] = 1
    /\ sim_var_name_to_id["Y"] = 2

\* C6: between resets the first get of a name makes exactly one data
\* definition, one change subscription and one MF.SimVars.Add.<name> command,
\* every later get of it makes no transport call, and no other step of get or
\* of the callback makes one.
C6_SubscribeOncePerName ==
    [][ /\ \A n \in Names : GetBegins(n) =>
            IF n \in Range(firstSeen)
            THEN sent' = <<>>
            ELSE /\ n \in DOMAIN sim_var_name_to_id'
                 /\ sent' = FirstReadCalls(n, sim_var_name_to_id'[n])
        /\ (ppc # "idle" \/ cpc' # cpc) => sent' = sent
      ]_vars

\* A later get of a name is waiting, no value has arrived, nothing was sent.
C6_Witness ==
    /\ ppc = "poll"
    /\ wait_counter > 0
    /\ lastOp = "get"
    /\ sent = <<>>
    /\ CurVar.float_value = None

\* After clear_sim_variables both dicts are empty and the one call made is the
\* MF.SimVars.Clear command.
AfterReset ==
    lastOp = "clear" =>
        /\ sim_vars = <<>>
        /\ sim_var_name_to_id = <<>>
        /\ sent = << SendCommand("MF.SimVars.Clear") >>

\* C7: after a reset nothing is tracked and MF.SimVars.Clear has been sent, and
\* the first get of any name after it, a name tracked before the reset
\* included, subscribes in full again and creates the variable pending: no
\* value, not initialized.
C7_ResetForgetsEverything ==
    /\ []AfterReset
    /\ [][ \A n \in Names : (GetBegins(n) /\ n \notin Range(firstSeen)) =>
            /\ n \in DOMAIN sim_var_name_to_id'
            /\ sim_var_name_to_id'[n] \in DOMAIN sim_vars'
            /\ sent' = FirstReadCalls(n, sim_var_name_to_id'[n])
            /\ sim_vars'[sim_var_name_to_id'[n]]
                   = SimVariable(sim_var_name_to_id'[n], n)
         ]_vars

\* Two names were tracked, a reset followed, and the name that had identifier
\* 2 has been subscribed again, pending, under identifier 1.
C7_Witness ==
    /\ 2 \in subscribed
    /\ lastOp = "get"
    /\ cur = NameOf(2)
    /\ firstSeen = << NameOf(2) >>
    /\ sent = FirstReadCalls(NameOf(2), 1)
    /\ sim_vars = << SimVariable(1, NameOf(2)) >>

\* C8: a notification whose identifier is not tracked when the handler tests
\* it is discarded: the handler returns without raising and changes neither
\* dict nor any variable's value or initialized flag.
C8_UnknownIdDiscarded ==
    [][ (cpc = "check" /\ cpc' # cpc /\ cbId \notin DOMAIN sim_vars) =>
            /\ cpc' = "idle"
            /\ cbResult' = "discarded"
            /\ UNCHANGED <<sim_vars, sim_var_name_to_id>>
      ]_vars

\* A notification for identifier 2, dropped by a reset, was discarded while
\* identifier 1 is tracked.
C8_Witness ==
    /\ cpc = "idle"
    /\ cbResult = "discarded"
    /\ cbId = 2
    /\ DOMAIN sim_vars = {1}

\* C9: the value cell is written by the callback alone: once a notification
\* carrying v has been stored and the callback handles no later one for that
\* identifier, the stored value is v; get never overwrites it.
C9_CallbackIsOnlyWriter ==
    \A id \in DOMAIN sim_vars :
        (delivered[id] # None /\ (cpc = "idle" \/ cbId # id)) =>
            sim_vars[id].float_value = delivered[id]

(***************************************************************************)
(* Claims about compact_labels and paging (checked under SpecLabels)       *)
(***************************************************************************)

\* Positions of the active pairs of the input list.
ActiveAt == {i \in DOMAIN pairs : pairs[i][1] = 1}

\* The j-th active position, counting from 1.
NthActive(j) == CHOOSE i \in ActiveAt : Cardinality({k \in ActiveAt : k <= i}) = j

\* C12: compact_labels returns exactly the labels whose state is 1, in input
\* order and with duplicates kept: one output label per active pair, the j-th
\* output being the label of the j-th active pair; states 0 and 2 contribute
\* nothing.
C12_CompactKeepsActiveInOrder ==
    lstage \in {"compacted", "windowed"} =>
        /\ Len(labels) = Cardinality(ActiveAt)
        /\ \A j \in 1..Len(labels) : labels[j] = pairs[NthActive(j)][2]

\* [(0,A),(1,B),(1,C),(0,D)] was compacted to [B,C].
C12_Witness ==
    /\ lstage = "compacted"
    /\ pairs = << <<0, <<"A">> >>, <<1, <<"B">> >>, <<1, <<"C">> >>, <<0, <<"D">> >> >>
    /\ labels = << <<"B">>, <<"C">> >>

\* C13: the visible window of an n-label list at page p is the contiguous
\* sub-list of indices [6p, 6p+6) clamped to the list: min(6, max(0, n-6p))
\* labels, the i-th being the list's label at 0-based index 6p+i.
C13_WindowIsClampedSlice ==
    lstage = "windowed" =>
        /\ Len(window) = Min(6, Max(0, Len(labels) - 6 * page))
        /\ \A i \in 1..Len(window) : window[i] = labels[6 * page + i]

\* A 14-label list windowed at page 2 gave exactly its last 2 labels.
C13_Witness ==
    /\ lstage = "windowed"
    /\ Len(labels) = 14
    /\ page = 2
    /\ window = <<labels[13], labels[14]>>

(***************************************************************************)
(* Claims about as01 (checked under SpecNorm)                              *)
(***************************************************************************)

\* The text with every blank and quote around it removed, in lower case.
Unwrapped(s) == LowerText(Strip(s, Whitespace \cup Quotes))

\* The codes the normalisation table allows for a float; the thresholds say
\* nothing about a nan.
TableOfFloat(f) ==
    IF f.k = "nan" THEN States
    ELSE IF FloatLess(f, 50) THEN {0}
    ELSE IF FloatLess(f, 150) THEN {1}
    ELSE {2}

\* The codes the normalisation table allows for a raw value.
Table(x) ==
    IF x.t = "None" THEN {0}
    ELSE IF x.t = "bool" THEN {IF x.b THEN 1 ELSE 0}
    ELSE IF x.t = "float" THEN TableOfFloat(x.f)
    ELSE IF x.t = "int" THEN (IF x.b THEN {2} ELSE TableOfFloat(Fin(100 * x.n)))
    ELSE LET s == Unwrapped(x.s)
         IN IF s \in TwoWords THEN {2}
            ELSE IF s \in OneWords THEN {1}
            ELSE IF s \in ZeroWords THEN {0}
            ELSE IF Raised(FloatOfStr(s)) THEN {0}
            ELSE TableOfFloat(FloatOfStr(s))

\* C14: as01 returns for every input the code of the normalisation table:
\* absent 0; true 1, false 0; a number by the thresholds 0.5 and 1.5; a text,
\* with the blanks and quotes around it stripped and case ignored, by its word
\* list, else as a number, else 0.
C14_NormalizeFollowsTable == nstage = "done" => code \in Table(rawValue)

(***************************************************************************)
(* Claims about the display primitives (checked under SpecGrid)            *)
(***************************************************************************)

\* The grid has 14 rows of 24 cells.
HasShape(g) == DOMAIN g = 0..13 /\ \A r \in 0..13 : DOMAIN g[r] = 0..23

\* The text a call places: put_text_center keeps at most the first 24 characters.
PlacedText(c) ==
    IF c.op = "put_text_center"
    THEN [i \in 1..Min(Len(c.text), 24) |-> c.text[i]]
    ELSE c.text

\* The column of its first character: put_text_center centres the text.
PlacedCol(c) ==
    IF c.op = "put_text_center" THEN (24 - Len(PlacedText(c))) \div 2 ELSE c.col

\* C15: a put_text or put_text_center call keeps the 14x24 shape and writes
\* exactly the characters whose target (row, col+i) lies in rows 0..13 and
\* columns 0..23, there; every other cell is as it was before the call.
C15_WritesStayInsideGrid ==
    [][(nOps' = nOps + 1 /\ lastCall'.op \in {"put_text", "put_text_center"}) =>
        LET c == lastCall'
            text == PlacedText(c)
            col == PlacedCol(c)
        IN /\ HasShape(grid')
           /\ \A r \in 0..13, k \in 0..23 :
                grid'[r][k] =
                    IF r = c.row /\ 0 <= k - col /\ k - col < Len(text)
                    THEN <<REPLACED(text[k - col + 1]), c.colour, c.size>>
                    ELSE grid[r][k]]_vars

\* Ten characters put at row 13, column 20 of an empty grid: columns 20..23
\* carry the first four, column 19 and the other rows are untouched.
C15_Witness ==
    /\ nOps = 1
    /\ lastCall.op = "put_text"
    /\ lastCall.text = <<"0", "1", "2", "3", "4", "5", "6", "7", "8", "9">>
    /\ lastCall.row = 13
    /\ lastCall.col = 20
    /\ grid[13][19] = <<>>
    /\ grid[13][20] = <<"0", lastCall.colour, lastCall.size>>
    /\ grid[13][23] = <<"3", lastCall.colour, lastCall.size>>
    /\ grid[12][20] = <<>>

\* C16: the Data list of the payload has exactly 336 entries, entry 24*r+c
\* (counted from 0) being cell (r,c) of the grid; for an untouched empty grid
\* every entry is the default blank cell.
C16_PayloadIsRowMajor ==
    payload # None =>
        LET data == payload[1].Data
        IN /\ Len(data) = 336
           /\ \A r \in 0..13, c \in 0..23 : data[24 * r + c + 1] = grid[r][c]
           /\ nOps = 0 => \A k \in 1..336 : data[k] = <<>>

\* The payload of a grid on which a text was put at row 13 and an area then
\* cleared: entry 24*13+0 carries the written cell (13,0), entries 0 and 23
\* the cleared cells (0,0) and (0,23).
C16_Witness ==
    /\ payload # None
    /\ nOps = 2
    /\ lastCall.op = "clear_area_with_spaces"
    /\ payload[1].Data[24 * 13 + 0 + 1] = <<"u2610", "g", 1>>
    /\ payload[1].Data[1] = <<" ", "w", 0>>
    /\ payload[1].Data[24] = <<" ", "w", 0>>

(***************************************************************************)
(* Claims about the poll loop (checked under SpecLoop and SpecLoopFair)    *)
(***************************************************************************)

\* C11: the poll loop never halts on a failed iteration: an exception raised
\* by the reads, the drawing or the send never leaves the loop, at most one
\* tick body is in progress at any time, and after every caught failure the
\* next tick is eventually started.
C11_LoopSurvivesFailures ==
    /\ [](lpc # "halted" /\ running <= 1)
    /\ (lpc = "except") ~> (lpc = "read")

\* A tick has started after the loop caught and logged a failure.
C11_Witness ==
    /\ lpc = "read"
    /\ caught \in LoopErrors
    /\ running = 1

\* Cell (r,c) of the grid handed to the sender.
SentCell(r, c) == payload[1].Data[24 * r + c + 1]

\* C17: in every grid the program sends each of the 336 cells is a
\* [glyph, colourTag, sizeTag] triple with colourTag in {a, w, k, g} and
\* sizeTag in {0, 1}; no cell is the unwritten empty default.
C17_EverySentCellIsWritten ==
    payload # None =>
        \A r \in 0..13, c \in 0..23 :
            /\ Len(SentCell(r, c)) = 3
            /\ SentCell(r, c)[2] \in {"a", "w", "k", "g"}
            /\ SentCell(r, c)[3] \in {0, 1}

\* The grid of a tick has been sent, cdsPage read 0 and engine1Fail is the only
\* left-column flag that read active.
OnlyEngine1Fail ==
    /\ lpc = "sleep"
    /\ payload # None
    /\ flags # None
    /\ flags[1].cdsPage = 0
    /\ flags[1].left[1] = 1
    /\ \A i \in 2..20 : flags[1].left[i] # 1

BlankCell(r, c) == Len(SentCell(r, c)) = 3 /\ SentCell(r, c)[1] = " "

\* Row 0: "ENG FAIL" in columns 0-7 and blanks in columns 8-11, all coloured
\* "a" and size large; column 12, between the two columns, is blank.
EngFailRow ==
    /\ \A c \in 0..7 : SentCell(0, c) = <<<<"E", "N", "G", " ", "F", "A", "I", "L">>[c + 1], "a", 0>>
    /\ \A c \in 8..11 : SentCell(0, c) = <<" ", "a", 0>>
    /\ BlankCell(0, 12)

\* C18 as stated: with cdsPage=0 and engine1Fail the only active left-column
\* flag, row 0 of the sent grid reads "ENG FAIL" followed by blanks, coloured
\* "a" and size large, and every other row of the left column (rows 1..12,
\* columns 0..11) is blank.
C18_OtherLeftRowsBlank ==
    OnlyEngine1Fail =>
        /\ EngFailRow
        /\ \A r \in 1..12, c \in 0..11 : BlankCell(r, c)

\* The miscellaneous labels visible on page 0, from the flags of the tick.
VisibleMisc == visible(compact_labels(PairsOf(flags[1].misc, MiscLabelTable)), 0)

\* What row 7+i shows in column c of the left column: the character of the
\* i-th visible miscellaneous label, centred, if the label reaches that far
\* left, else a blank.
MiscRowCell(i, c) ==
    LET lbl == IF i < Len(VisibleMisc) THEN VisibleMisc[i + 1] ELSE <<>>
        col == (24 - Len(lbl)) \div 2
    IN IF lbl # <<>> /\ col <= c THEN <<lbl[c - col + 1], "a", 0>> ELSE <<" ", "w", 0>>

\* C18, amended: row 0 as stated; rows 1..5 of the left column are blank; row 6
\* is blank up to column 9 and carries the first two glyphs of the title MISC,
\* coloured "k", in columns 10-11; rows 7..12 are blank except where the centred
\* miscellaneous label of that row reaches into the left column.
C18_LeftColumnUnderTitleAndMisc ==
    OnlyEngine1Fail =>
        /\ EngFailRow
        /\ \A r \in 1..5, c \in 0..11 : SentCell(r, c) = <<" ", "w", 0>>
        /\ \A c \in 0..9 : SentCell(6, c) = <<" ", "w", 0>>
        /\ SentCell(6, 10) = <<"M", "k", 0>>
        /\ SentCell(6, 11) = <<"I", "k", 0>>
        /\ \A i \in 0..5, c \in 0..11 : SentCell(7 + i, c) = MiscRowCell(i, c)

\* Such a tick with every miscellaneous flag active: "XMSN OIL T" is centred on
\* row 7 from column 7 on, inside the left column.
C18_Witness ==
    /\ OnlyEngine1Fail
    /\ \A i \in 1..8 : flags[1].misc[i] = 1
    /\ SentCell(0, 0) = <<"E", "a", 0>>
    /\ SentCell(7, 7) = <<"X", "a", 0>>
    /\ SentCell(12, 11) = <<"D", "a", 0>>

(***************************************************************************)
(* Claims about the life of a variable and the wait of get (SpecVars)      *)
(***************************************************************************)

\* This step is not a reset.
NoReset == ~(lastOp' = "clear" /\ sim_vars' = <<>>)

\* This step is line 152 of the callback storing into identifier id.
StoresNotification(id) == cpc = "store" /\ cpc' = "idle" /\ cbId = id

\* C19: between resets a variable only moves forward: a stored value never
\* reverts to None and initialized never to false; the step from pending to
\* has_value is the storing of a notification for its identifier; and a get
\* that finds a value does not wait and returns the value of the most recent
\* notification stored for the identifier.
C19_ForwardOnlyAndLastNotified ==
    [][/\ \A id \in DOMAIN sim_vars :
            (NoReset /\ id \in DOMAIN sim_vars') =>
                /\ sim_vars[id].float_value # None => sim_vars'[id].float_value # None
                /\ sim_vars[id].initialized => sim_vars'[id].initialized
                /\ (sim_vars[id].float_value = None /\ sim_vars'[id].float_value # None)
                      => StoresNotification(id)
       /\ (ppc = "poll" /\ CurVar.float_value # None) => wait_counter' = wait_counter
       /\ (/\ ppc = "return"
           /\ ppc' = "idle"
           /\ delivered[sim_var_name_to_id[cur]] # None
           /\ (cpc = "idle" \/ cbId # sim_var_name_to_id[cur]))
              => retVal' = delivered[sim_var_name_to_id[cur]]
      ]_vars

\* Some step of the callback can be taken.
CallbackCanStep == ENABLED (CbReceive \/ CbCheck \/ CbLoad \/ CbInit \/ CbStore)

\* C20: every call of get terminates.  The wait counts at most 50 polls, a poll
\* that finds a value leaves the wait loop at once, a running get never stops
\* the callback thread from taking its next step, and every get that has begun
\* returns, whether or not a notification arrives.
C20_GetTerminates ==
    /\ [](wait_counter <= 50)
    /\ [](ppc # "idle" => CallbackCanStep)
    /\ [][(/\ ppc = "poll"
            /\ CurVar.float_value # None
            /\ (ppc' # ppc \/ wait_counter' # wait_counter))
              => (ppc' = "test_value" /\ wait_counter' = wait_counter)]_vars
    /\ (ppc # "idle") ~> (ppc = "idle")

\* A get returned after all 50 polls although no notification was ever stored.
C20_Witness ==
    /\ ppc = "return"
    /\ wait_counter = 50
    /\ \A id \in DOMAIN delivered : delivered[id] = None
    /\ cpc = "idle"

(***************************************************************************)
(* Claims about notifications across a reset (checked under SpecVars)      *)
(***************************************************************************)

\* This step is a get that subscribes a name: lines 160-166 ran.
SubscribesNew == ppc = "idle" /\ ppc' = "poll" /\ DOMAIN sim_vars' # DOMAIN sim_vars

\* C21: a notification is stored only into the variable whose subscription
\* produced it: when line 152 stores the payload of a notification taken for
\* the subscription of some name, the variable written is the one of that name,
\* also when a reset and later gets came in between; and the identifier a get
\* hands out is not one a subscription still live in the transport carries.
C21_StoredUnderOwnSubscription ==
    [][/\ (/\ StoresNotification(cbId)
           /\ cbId \in DOMAIN sim_vars
           /\ cbName # None)
              => cbName = Some(sim_vars[cbId].name)
       /\ SubscribesNew =>
              \A id \in DOMAIN sim_vars' \ DOMAIN sim_vars : id \notin subscribed
      ]_vars

(***************************************************************************)
(* Claims about the reach of the page selector (checked under SpecLoop)    *)
(***************************************************************************)

\* The grids a tick would draw from the codes fl for each value of the page
\* selector.
PageGrids(fl) == [pg \in Pages |-> TickGrid([fl EXCEPT !.cdsPage = pg])]

\* Row row of g shows the label, padded to width, from column col on, the way
\* draw_columns writes it.
ShowsInColumn(g, label, row, col, width) ==
    LET field == ljust(PySlice(label, 0, width), width)
    IN \A k \in 1..width : g[row][col + k - 1] = <<REPLACED(field[k]), "a", LARGE>>

\* Row row of g shows the label centred, the way the MISC block writes it.
ShowsCentred(g, label, row) ==
    LET col == (CDU_COLUMNS - Len(label)) \div 2
    IN \A k \in 1..Len(label) : g[row][col + k - 1] = <<REPLACED(label[k]), "a", LARGE>>

\* C22: no active annunciator is unreachable: whatever the flags of a tick
\* read, every entry of the left, right and miscellaneous list that reads 1 is
\* drawn on the grid for at least one value 0, 1 or 2 of the page selector.
C22_EveryActiveEntryReachable ==
    flags # None =>
        LET fl == flags[1]
            gs == PageGrids(fl)
        IN /\ \A i \in 1..20 : fl.left[i] = 1 =>
                \E pg \in Pages, row \in CONTENT_FIRST_ROW..CONTENT_LAST_ROW :
                    ShowsInColumn(gs[pg], LeftLabelTable[i], row, LEFT_COL_START, 12)
           /\ \A i \in 1..20 : fl.right[i] = 1 =>
                \E pg \in Pages, row \in CONTENT_FIRST_ROW..CONTENT_LAST_ROW :
                    ShowsInColumn(gs[pg], LeftLabelTable[i], row, RIGHT_COL_START, 11)
           /\ \A i \in 1..8 : fl.misc[i] = 1 =>
                \E pg \in Pages, row \in CONTENT_FIRST_ROW..CONTENT_LAST_ROW :
                    ShowsCentred(gs[pg], MiscLabelTable[i], row)

====
